---- MODULE Spec2Model ----
(***************************************************************************)
(* Model of detect.py: the QueryInFinder syntax-tree visitor, its node     *)
(* classifiers and renderers, and the scan_file / scan_directory engine.   *)
(*                                                                         *)
(* Text (identifiers, attribute names, rendered code) is a sequence of     *)
(* one-character strings, so that lower-casing, substring tests and string *)
(* concatenation are computed and not assumed.  Syntax nodes are records   *)
(* with a "kind" field naming the ast class.  Operator and expression-     *)
(* context nodes (ast.Eq, ast.Load, ...) have no children and no handler;  *)
(* operators are kept as the class name in Compare.ops, contexts are left  *)
(* out.  Identifiers are ASCII.                                            *)
(***************************************************************************)
EXTENDS Integers, Sequences, FiniteSets, TLC

(***************************************************************************)
(* Text                                                                    *)
(***************************************************************************)
s_q == <<"q">>
s_query == <<"q", "u", "e", "r", "y">>
s_subq == <<"s", "u", "b", "q">>
s_sub_q == <<"s", "u", "b", "_", "q">>
s_row == <<"r", "o", "w">>
s_first == <<"f", "i", "r", "s", "t">>
s_one == <<"o", "n", "e">>
s_result == <<"r", "e", "s", "u", "l", "t">>
s_record == <<"r", "e", "c", "o", "r", "d">>
s_data == <<"d", "a", "t", "a">>
s_filter == <<"f", "i", "l", "t", "e", "r">>
s_join == <<"j", "o", "i", "n">>
s_outerjoin == <<"o", "u", "t", "e", "r", "j", "o", "i", "n">>
s_group_by == <<"g", "r", "o", "u", "p", "_", "b", "y">>
s_having == <<"h", "a", "v", "i", "n", "g">>
s_order_by == <<"o", "r", "d", "e", "r", "_", "b", "y">>
s_limit == <<"l", "i", "m", "i", "t">>
s_one_or_none == <<"o", "n", "e", "_", "o", "r", "_", "n", "o", "n", "e">>
s_scalar_one == <<"s", "c", "a", "l", "a", "r", "_", "o", "n", "e">>
s_scalar_one_or_none == <<"s", "c", "a", "l", "a", "r", "_", "o", "n", "e", "_", "o", "r", "_", "n", "o", "n", "e">>
s_subquery == <<"s", "u", "b", "q", "u", "e", "r", "y">>
s_scalar_subquery == <<"s", "c", "a", "l", "a", "r", "_", "s", "u", "b", "q", "u", "e", "r", "y">>
s_exists == <<"e", "x", "i", "s", "t", "s">>
s_all == <<"a", "l", "l">>
s_in_ == <<"i", "n", "_">>
s_notin_ == <<"n", "o", "t", "i", "n", "_">>

UpperChars == <<"A", "B", "C", "D", "E", "F", "G", "H", "I", "J", "K", "L", "M",
                "N", "O", "P", "Q", "R", "S", "T", "U", "V", "W", "X", "Y", "Z">>
LowerChars == <<"a", "b", "c", "d", "e", "f", "g", "h", "i", "j", "k", "l", "m",
                "n", "o", "p", "q", "r", "s", "t", "u", "v", "w", "x", "y", "z">>

\* str.lower() on one ASCII character
LowerChar(c) ==
    IF \E i \in 1..Len(UpperChars) : UpperChars[i] = c
    THEN LowerChars[CHOOSE i \in 1..Len(UpperChars) : UpperChars[i] = c]
    ELSE c

\* str.lower()
Lower(s) == [i \in 1..Len(s) |-> LowerChar(s[i])]

\* word in name   (substring test on str)
Contains(word, name) ==
    \E i \in 0..(Len(name) - Len(word)) : SubSeq(name, i + 1, i + Len(word)) = word

RECURSIVE Join(_, _)
\* sep.join(parts)
Join(sep, parts) ==
    IF parts = <<>> THEN <<>>
    ELSE IF Len(parts) = 1 THEN parts[1]
    ELSE parts[1] \o sep \o Join(sep, Tail(parts))

(***************************************************************************)
(* Syntax nodes                                                            *)
(***************************************************************************)
Name(id, l) == [kind |-> "Name", id |-> id, lineno |-> l]
Constant(r, l) == [kind |-> "Constant", repr |-> r, lineno |-> l]
Attribute(v, a) == [kind |-> "Attribute", value |-> v, attr |-> a, lineno |-> v.lineno]
Call(f, as) == [kind |-> "Call", func |-> f, args |-> as, lineno |-> f.lineno]
Compare(lft, os, cs) ==
    [kind |-> "Compare", left |-> lft, ops |-> os, comparators |-> cs, lineno |-> lft.lineno]
List(es, l) == [kind |-> "List", elts |-> es, lineno |-> l]
Starred(v) == [kind |-> "Starred", value |-> v, lineno |-> v.lineno]
Expr(v) == [kind |-> "Expr", value |-> v, lineno |-> v.lineno]
Module(b) == [kind |-> "Module", body |-> b]

\* ast.iter_child_nodes(node): the child nodes in field order
Children(node) ==
    CASE node.kind = "Module" -> node.body
      [] node.kind = "Expr" -> <<node.value>>
      [] node.kind = "Call" -> <<node.func>> \o node.args
      [] node.kind = "Attribute" -> <<node.value>>
      [] node.kind = "Compare" -> <<node.left>> \o node.comparators
      [] node.kind = "List" -> node.elts
      [] node.kind = "Starred" -> <<node.value>>
      [] OTHER -> <<>>

RECURSIVE NodeAt(_, _)
\* the node object reached from root by the child indices in path
NodeAt(root, path) ==
    IF path = <<>> THEN root
    ELSE NodeAt(Children(root)[Head(path)], Tail(path))

RECURSIVE PreOrder(_, _)
RECURSIVE PreOrderKids(_, _, _)
\* the paths of all nodes under (and including) the node at path p, in document order
PreOrder(node, p) == <<p>> \o PreOrderKids(node, p, 1)
PreOrderKids(node, p, i) ==
    IF i > Len(Children(node)) THEN <<>>
    ELSE PreOrder(Children(node)[i], Append(p, i)) \o PreOrderKids(node, p, i + 1)

(***************************************************************************)
(* State                                                                   *)
(***************************************************************************)
VARIABLES
    env,             \* the interpreter the tool runs on
    fs,              \* the file tree under the scanned root, and the arguments of scan_directory
    pc,              \* position in scan_directory / scan_file
    idx,             \* position of the rglob enumeration
    tree,            \* the syntax tree being visited
    stack,           \* paths of the nodes still to visit, next one first
    found_patterns,  \* QueryInFinder.found_patterns of the current finder
    patterns,        \* scan_directory's local: what the last scan_file call returned
    results,         \* scan_directory's results dict, in insertion order
    stderr,          \* messages printed to sys.stderr
    last,            \* the node visited by the last step and what it appended
    trace,           \* paths of the nodes visited so far in the current file
    run,             \* which call of scan_directory on this file tree is running
    first_report,    \* what the first call of scan_directory returned
    co_warmup,       \* the interpreter's warm-up counter of fallback_unparse's code object
    rendered         \* outcome of the last direct call of fallback_unparse

vars == <<env, fs, pc, idx, tree, stack, found_patterns, patterns, results, stderr, last, trace,
          run, first_report, co_warmup, rendered>>

NoneT == "None"

(***************************************************************************)
(* Node classifiers                                                        *)
(***************************************************************************)
\* `word is name`: object identity of two str objects.  Whether str.lower()
\* hands back the very object of an equal literal depends on the interpreter;
\* two unequal strings are never the same object.
str_is(word, name) == env.lower_shares_literal /\ word = name

QueryChainMethods == {s_filter, s_join, s_outerjoin, s_group_by, s_having, s_order_by}
RowMethods == {s_first, s_one, s_one_or_none, s_scalar_one, s_scalar_one_or_none}
RowChainMethods == QueryChainMethods \cup {s_limit}
SubqueryMethods == {s_subquery, s_scalar_subquery, s_exists, s_all}
QueryWords == {s_query, s_subq, s_sub_q}
RowWords == {s_row, s_first, s_one, s_result, s_record, s_data}

RECURSIVE is_query_chain(_)
is_query_chain(node) ==
    IF node.kind = "Call"
    THEN IF node.func.kind = "Attribute"
         THEN IF node.func.attr \in QueryChainMethods
              THEN is_query_chain(node.func.value)
              ELSE node.func.attr = s_query
         ELSE FALSE
    ELSE FALSE

RECURSIVE is_query_chain_with_row_result(_)
is_query_chain_with_row_result(node) ==
    IF node.kind = "Call"
    THEN IF node.func.kind = "Attribute"
         THEN IF node.func.attr \in RowMethods
              THEN is_query_chain(node.func.value)
              ELSE IF node.func.attr \in RowChainMethods
                   THEN is_query_chain_with_row_result(node.func.value)
                   ELSE node.func.attr = s_query
         ELSE FALSE
    ELSE FALSE

RECURSIVE has_subquery_call(_)
has_subquery_call(node) ==
    IF node.kind = "Call"
    THEN IF node.func.kind = "Attribute"
         THEN IF node.func.attr \in SubqueryMethods
              THEN TRUE
              ELSE has_subquery_call(node.func.value)
         ELSE FALSE
    ELSE FALSE

\* the any(...) of lines 90-95 and 101-106
looks_like_query(name) ==
    \/ \E word \in {s_q} : str_is(word, name)
    \/ \E word \in QueryWords : Contains(word, name)

\* the any(...) of lines 122-125 and 131-134
looks_like_row(name) == \E word \in RowWords : Contains(word, name)

\* the branches on a call argument taken in the other order
classify_argument_subquery_first(arg) ==
    IF arg.kind = "Call"
    THEN IF has_subquery_call(arg) THEN "subquery_call"
         ELSE IF is_query_chain(arg) THEN "direct_query"
         ELSE NoneT
    ELSE IF arg.kind = "Name"
    THEN IF looks_like_query(Lower(arg.id)) THEN "query_variable" ELSE NoneT
    ELSE IF arg.kind = "Attribute"
    THEN IF looks_like_query(Lower(arg.attr)) THEN "query_attribute" ELSE NoneT
    ELSE NoneT

\* the names tested as written, without .lower()
classify_argument_no_lower(arg) ==
    IF arg.kind = "Call"
    THEN IF is_query_chain(arg) THEN "direct_query"
         ELSE IF has_subquery_call(arg) THEN "subquery_call"
         ELSE NoneT
    ELSE IF arg.kind = "Name"
    THEN IF looks_like_query(arg.id) THEN "query_variable" ELSE NoneT
    ELSE IF arg.kind = "Attribute"
    THEN IF looks_like_query(arg.attr) THEN "query_attribute" ELSE NoneT
    ELSE NoneT

classify_argument(arg) ==
    IF arg.kind = "Call"
    THEN IF is_query_chain(arg) THEN "direct_query"
         ELSE IF has_subquery_call(arg) THEN "subquery_call"
         ELSE NoneT
    ELSE IF arg.kind = "Name"
    THEN IF looks_like_query(Lower(arg.id)) THEN "query_variable" ELSE NoneT
    ELSE IF arg.kind = "Attribute"
    THEN IF looks_like_query(Lower(arg.attr)) THEN "query_attribute" ELSE NoneT
    ELSE NoneT

\* the word list without its last entry
classify_comparison_argument_short_list(arg) ==
    IF arg.kind = "Call"
    THEN IF is_query_chain_with_row_result(arg) THEN "row_result" ELSE NoneT
    ELSE IF arg.kind = "Name"
    THEN IF \E w \in RowWords \ {s_data} : Contains(w, Lower(arg.id))
         THEN "possible_row_variable" ELSE NoneT
    ELSE IF arg.kind = "Attribute"
    THEN IF \E w \in RowWords \ {s_data} : Contains(w, Lower(arg.attr))
         THEN "possible_row_attribute" ELSE NoneT
    ELSE NoneT

classify_comparison_argument(arg) ==
    IF arg.kind = "Call"
    THEN IF is_query_chain_with_row_result(arg) THEN "row_result" ELSE NoneT
    ELSE IF arg.kind = "Name"
    THEN IF looks_like_row(Lower(arg.id)) THEN "possible_row_variable" ELSE NoneT
    ELSE IF arg.kind = "Attribute"
    THEN IF looks_like_row(Lower(arg.attr)) THEN "possible_row_attribute" ELSE NoneT
    ELSE NoneT

(***************************************************************************)
(* Renderers                                                               *)
(***************************************************************************)
CompareOps == {"Eq", "NotEq", "Lt", "LtE", "Gt", "GtE"}

\* the operator table of visit_Compare without its entry for >=
op_symbol_no_gte(op) ==
    CASE op = "Eq" -> "=="
      [] op = "NotEq" -> "!="
      [] op = "Lt" -> "<"
      [] op = "LtE" -> "<="
      [] op = "Gt" -> ">"
      [] OTHER -> "?"

\* the op_symbol / op_str dict lookup with default "?"
op_symbol(op) ==
    CASE op = "Eq" -> "=="
      [] op = "NotEq" -> "!="
      [] op = "Lt" -> "<"
      [] op = "LtE" -> "<="
      [] op = "Gt" -> ">"
      [] op = "GtE" -> ">="
      [] OTHER -> "?"

\* a marker as text
SymbolText(sym) ==
    CASE sym = "==" -> <<"=", "=">>
      [] sym = "!=" -> <<"!", "=">>
      [] sym = "<" -> <<"<">>
      [] sym = "<=" -> <<"<", "=">>
      [] sym = ">" -> <<">">>
      [] sym = ">=" -> <<">", "=">>
      [] OTHER -> <<"?">>

\* type(node).__name__ as text
KindText(kind) ==
    CASE kind = "Constant" -> <<"C", "o", "n", "s", "t", "a", "n", "t">>
      [] kind = "List" -> <<"L", "i", "s", "t">>
      [] kind = "Starred" -> <<"S", "t", "a", "r", "r", "e", "d">>
      [] kind = "Expr" -> <<"E", "x", "p", "r">>
      [] kind = "Module" -> <<"M", "o", "d", "u", "l", "e">>
      [] kind = "Name" -> <<"N", "a", "m", "e">>
      [] kind = "Attribute" -> <<"A", "t", "t", "r", "i", "b", "u", "t", "e">>
      [] kind = "Call" -> <<"C", "a", "l", "l">>
      [] kind = "Compare" -> <<"C", "o", "m", "p", "a", "r", "e">>

RECURSIVE fallback_unparse(_)
\* the renderer keeping only the first operator/comparator pair of a comparison
fallback_unparse_first_pair(node) ==
    IF node.kind = "Name" THEN node.id
    ELSE IF node.kind = "Attribute"
    THEN fallback_unparse(node.value) \o <<".">> \o node.attr
    ELSE IF node.kind = "Call"
    THEN LET func_str == fallback_unparse(node.func)
             shown == SubSeq(node.args, 1, IF Len(node.args) > 2 THEN 2 ELSE Len(node.args))
             joined == Join(<<",", " ">>, [i \in 1..Len(shown) |-> fallback_unparse(shown[i])])
             args_str == IF Len(node.args) > 2 THEN joined \o <<",", " ", ".", ".", ".">> ELSE joined
         IN  func_str \o <<"(">> \o args_str \o <<")">>
    ELSE IF node.kind = "Compare"
    THEN fallback_unparse(node.left) \o <<" ">> \o SymbolText(op_symbol(node.ops[1]))
         \o <<" ">> \o fallback_unparse(node.comparators[1])
    ELSE <<"<">> \o KindText(node.kind) \o <<">">>

fallback_unparse(node) ==
    IF node.kind = "Name" THEN node.id
    ELSE IF node.kind = "Attribute"
    THEN fallback_unparse(node.value) \o <<".">> \o node.attr
    ELSE IF node.kind = "Call"
    THEN LET func_str == fallback_unparse(node.func)
             shown == SubSeq(node.args, 1, IF Len(node.args) > 2 THEN 2 ELSE Len(node.args))
             joined == Join(<<",", " ">>, [i \in 1..Len(shown) |-> fallback_unparse(shown[i])])
             args_str == IF Len(node.args) > 2 THEN joined \o <<",", " ", ".", ".", ".">> ELSE joined
         IN  func_str \o <<"(">> \o args_str \o <<")">>
    ELSE IF node.kind = "Compare"
    THEN LET lft == fallback_unparse(node.left)
             n == IF Len(node.ops) < Len(node.comparators)
                  THEN Len(node.ops) ELSE Len(node.comparators)
             comparisons == [i \in 1..n |->
                 SymbolText(op_symbol(node.ops[i])) \o <<" ">> \o fallback_unparse(node.comparators[i])]
         IN  lft \o <<" ">> \o Join(<<" ">>, comparisons)
    ELSE <<"<">> \o KindText(node.kind) \o <<">">>

\* the source text of a comparison operator, as ast.unparse writes it
OperatorText(op) ==
    CASE op = "Is" -> <<"i", "s">>
      [] op = "IsNot" -> <<"i", "s", " ", "n", "o", "t">>
      [] op = "In" -> <<"i", "n">>
      [] op = "NotIn" -> <<"n", "o", "t", " ", "i", "n">>
      [] OTHER -> SymbolText(op_symbol(op))

RECURSIVE ast_unparse(_)
\* ast.unparse (Python >= 3.9) on the node kinds of the model; none of the
\* trees of the model needs parentheses for precedence
ast_unparse(node) ==
    IF node.kind = "Name" THEN node.id
    ELSE IF node.kind = "Constant" THEN node.repr
    ELSE IF node.kind = "Attribute"
    THEN ast_unparse(node.value) \o <<".">> \o node.attr
    ELSE IF node.kind = "Call"
    THEN ast_unparse(node.func) \o <<"(">>
         \o Join(<<",", " ">>, [i \in 1..Len(node.args) |-> ast_unparse(node.args[i])])
         \o <<")">>
    ELSE IF node.kind = "Compare"
    THEN ast_unparse(node.left) \o <<" ">>
         \o Join(<<" ">>, [i \in 1..Len(node.ops) |->
                OperatorText(node.ops[i]) \o <<" ">> \o ast_unparse(node.comparators[i])])
    ELSE IF node.kind = "List"
    THEN <<"[">> \o Join(<<",", " ">>, [i \in 1..Len(node.elts) |-> ast_unparse(node.elts[i])])
         \o <<"]">>
    ELSE IF node.kind = "Starred" THEN <<"*">> \o ast_unparse(node.value)
    ELSE <<>>

\* ast.unparse raises AttributeError exactly when the ast module has no unparse
safe_unparse(node) ==
    IF env.has_unparse THEN ast_unparse(node) ELSE fallback_unparse(node)

\* CPython 3.11 quickens a code object on the 8th warm-up event (a frame entered,
\* a backward jump); co_warmup counts from -8 up to 0
QuickenDelay == 8

\* _PyCode_Warmup: one warm-up event on a counter w
Warmup(w) == IF w < 0 THEN w + 1 ELSE 0

NoRecursionError(w) == [raised |-> FALSE, w |-> w]
RecursionError(w) == [raised |-> TRUE, w |-> w]

RECURSIVE fallback_unparse_depth(_, _, _)
RECURSIVE fallback_unparse_args(_, _, _, _)
RECURSIVE fallback_unparse_pairs(_, _, _, _)
\* whether fallback_unparse(node) exceeds the recursion limit when room nested
\* calls still fit and the warm-up counter is w, and the counter afterwards.
\* Charged against the limit are: each frame of fallback_unparse; the isinstance
\* calls at its start as long as the code object is not quickened (afterwards
\* they are specialised and not charged); the call of ", ".join and the frame of
\* the generator expression it runs.
fallback_unparse_depth(node, w, room) ==
    IF room < 1 THEN RecursionError(w)
    ELSE LET w1 == Warmup(w)
         IN  IF w1 < 0 /\ room < 2 THEN RecursionError(w1)
             ELSE IF node.kind = "Attribute"
             THEN fallback_unparse_depth(node.value, w1, room - 1)
             ELSE IF node.kind = "Call"
             THEN LET f == fallback_unparse_depth(node.func, w1, room - 1)
                      shown == SubSeq(node.args, 1,
                                      IF Len(node.args) > 2 THEN 2 ELSE Len(node.args))
                  IN  IF f.raised THEN f
                      ELSE IF room < 3 THEN RecursionError(f.w)
                      ELSE fallback_unparse_args(shown, 1, f.w, room - 3)
             ELSE IF node.kind = "Compare"
             THEN LET l == fallback_unparse_depth(node.left, w1, room - 1)
                  IN  IF l.raised THEN l
                      ELSE fallback_unparse_pairs(node, 1, l.w, room - 1)
             ELSE NoRecursionError(w1)

\* the generator expression over the shown arguments, from the i-th on
fallback_unparse_args(shown, i, w, room) ==
    IF i > Len(shown) THEN NoRecursionError(w)
    ELSE LET a == fallback_unparse_depth(shown[i], w, room)
         IN  IF a.raised THEN a ELSE fallback_unparse_args(shown, i + 1, a.w, room)

\* the for loop over zip(node.ops, node.comparators), from the i-th pair on; the
\* jump back at the end of an iteration is a warm-up event
fallback_unparse_pairs(node, i, w, room) ==
    IF i > Len(node.ops) \/ i > Len(node.comparators) THEN NoRecursionError(w)
    ELSE LET c == fallback_unparse_depth(node.comparators[i], w, room)
         IN  IF c.raised THEN c
             ELSE fallback_unparse_pairs(node, i + 1, Warmup(c.w), room)

\* fallback_unparse(node) called where room nested calls still fit: the
\* interpreter raises RecursionError when the rendering goes deeper
fallback_unparse_call(node, w, room) ==
    LET d == fallback_unparse_depth(node, w, room)
    IN  [raised |-> d.raised,
         text |-> IF d.raised THEN <<>> ELSE fallback_unparse(node),
         w |-> d.w]

\* n warm-up events on a counter w
WarmupBy(w, n) == IF w + n > 0 THEN 0 ELSE w + n

RECURSIVE fallback_unparse_events(_)
RECURSIVE fallback_unparse_events_args(_, _)
RECURSIVE fallback_unparse_events_pairs(_, _)
\* the warm-up events of a complete fallback_unparse(node): one for each frame
\* of fallback_unparse entered and one for each jump back in the loop over the
\* pairs of a comparison
fallback_unparse_events(node) ==
    1 + (IF node.kind = "Attribute" THEN fallback_unparse_events(node.value)
         ELSE IF node.kind = "Call"
         THEN fallback_unparse_events(node.func)
              + fallback_unparse_events_args(
                    SubSeq(node.args, 1, IF Len(node.args) > 2 THEN 2 ELSE Len(node.args)), 1)
         ELSE IF node.kind = "Compare"
         THEN fallback_unparse_events(node.left) + fallback_unparse_events_pairs(node, 1)
         ELSE 0)

fallback_unparse_events_args(shown, i) ==
    IF i > Len(shown) THEN 0
    ELSE fallback_unparse_events(shown[i]) + fallback_unparse_events_args(shown, i + 1)

fallback_unparse_events_pairs(node, i) ==
    IF i > Len(node.ops) \/ i > Len(node.comparators) THEN 0
    ELSE fallback_unparse_events(node.comparators[i]) + 1
         + fallback_unparse_events_pairs(node, i + 1)

\* the warm-up events of safe_unparse(node): ast.unparse, where there is one,
\* leaves the code object of fallback_unparse alone
safe_unparse_events(node) ==
    IF env.has_unparse THEN 0 ELSE fallback_unparse_events(node)

(***************************************************************************)
(* Tree visitor                                                            *)
(***************************************************************************)
\* generic_visit going through the child nodes from the last to the first
generic_visit_last_first(node, p) ==
    [i \in 1..Len(Children(node)) |-> Append(p, Len(Children(node)) + 1 - i)]

\* NodeVisitor.generic_visit: visit every child node, in field order
generic_visit(node, p) == [i \in 1..Len(Children(node)) |-> Append(p, i)]

\* visit_Call classifying the last argument instead of the first
visit_Call_last_arg(node, p) ==
    [emit |->
        IF /\ node.func.kind = "Attribute"
           /\ node.func.attr \in {s_in_, s_notin_}
           /\ Len(node.args) > 0
        THEN LET arg == node.args[Len(node.args)]
                 pattern_type == classify_argument(arg)
             IN  IF pattern_type # NoneT
                 THEN << [line |-> node.lineno,
                          code |-> safe_unparse(node),
                          type |-> pattern_type,
                          arg |-> safe_unparse(arg),
                          comparison |-> "in_or_notin_"] >>
                 ELSE <<>>
        ELSE <<>>,
     push |-> generic_visit(node, p),
     w |-> IF /\ node.func.kind = "Attribute"
              /\ node.func.attr \in {s_in_, s_notin_}
              /\ Len(node.args) > 0
              /\ classify_argument(node.args[Len(node.args)]) # NoneT
           THEN WarmupBy(co_warmup, safe_unparse_events(node)
                                    + safe_unparse_events(node.args[Len(node.args)]))
           ELSE co_warmup]

\* visit_Call returning right after a match, without generic_visit
visit_Call_stop_on_match(node, p) ==
    LET emit == IF /\ node.func.kind = "Attribute"
                   /\ node.func.attr \in {s_in_, s_notin_}
                   /\ Len(node.args) > 0
                   /\ classify_argument(node.args[1]) # NoneT
                THEN << [line |-> node.lineno,
                         code |-> safe_unparse(node),
                         type |-> classify_argument(node.args[1]),
                         arg |-> safe_unparse(node.args[1]),
                         comparison |-> "in_or_notin_"] >>
                ELSE <<>>
    IN  [emit |-> emit,
         push |-> IF emit # <<>> THEN <<>> ELSE generic_visit(node, p),
         w |-> IF emit # <<>>
               THEN WarmupBy(co_warmup, safe_unparse_events(node) + safe_unparse_events(node.args[1]))
               ELSE co_warmup]

\* visit_Call: what it appends to found_patterns and the nodes it goes on to visit
visit_Call(node, p) ==
    [emit |->
        IF /\ node.func.kind = "Attribute"
           /\ node.func.attr \in {s_in_, s_notin_}
           /\ Len(node.args) > 0
        THEN LET arg == node.args[1]
                 pattern_type == classify_argument(arg)
             IN  IF pattern_type # NoneT
                 THEN << [line |-> node.lineno,
                          code |-> safe_unparse(node),
                          type |-> pattern_type,
                          arg |-> safe_unparse(arg),
                          comparison |-> "in_or_notin_"] >>
                 ELSE <<>>
        ELSE <<>>,
     push |-> generic_visit(node, p),
     w |-> IF /\ node.func.kind = "Attribute"
              /\ node.func.attr \in {s_in_, s_notin_}
              /\ Len(node.args) > 0
              /\ classify_argument(node.args[1]) # NoneT
           THEN WarmupBy(co_warmup, safe_unparse_events(node) + safe_unparse_events(node.args[1]))
           ELSE co_warmup]

RECURSIVE compare_loop_any_op(_, _)
\* the loop without the isinstance test on the operator
compare_loop_any_op(node, i) ==
    IF i > Len(node.ops) THEN <<>>
    ELSE LET op == node.ops[i]
             here ==
                 IF i <= Len(node.comparators)
                 THEN LET comparator == node.comparators[i]
                          pattern_type == classify_comparison_argument(comparator)
                      IN  IF pattern_type # NoneT
                          THEN << [line |-> node.lineno,
                                   code |-> safe_unparse(node),
                                   type |-> pattern_type,
                                   arg |-> safe_unparse(comparator),
                                   comparison |-> op_symbol(op)] >>
                          ELSE <<>>
                 ELSE <<>>
         IN  here \o compare_loop_any_op(node, i + 1)

RECURSIVE compare_loop(_, _)
\* the for loop of visit_Compare from index i on (1-based)
compare_loop(node, i) ==
    IF i > Len(node.ops) THEN <<>>
    ELSE LET op == node.ops[i]
             here ==
                 IF op \in CompareOps /\ i <= Len(node.comparators)
                 THEN LET comparator == node.comparators[i]
                          pattern_type == classify_comparison_argument(comparator)
                      IN  IF pattern_type # NoneT
                          THEN << [line |-> node.lineno,
                                   code |-> safe_unparse(node),
                                   type |-> pattern_type,
                                   arg |-> safe_unparse(comparator),
                                   comparison |-> op_symbol(op)] >>
                          ELSE <<>>
                 ELSE <<>>
         IN  here \o compare_loop(node, i + 1)

RECURSIVE compare_loop_events(_, _)
\* the warm-up events of the for loop of visit_Compare from index i on: each
\* finding unparses the comparison and then the comparator
compare_loop_events(node, i) ==
    IF i > Len(node.ops) THEN 0
    ELSE (IF /\ node.ops[i] \in CompareOps
             /\ i <= Len(node.comparators)
             /\ classify_comparison_argument(node.comparators[i]) # NoneT
          THEN safe_unparse_events(node) + safe_unparse_events(node.comparators[i])
          ELSE 0)
         + compare_loop_events(node, i + 1)

\* visit_Compare: what it appends to found_patterns and the nodes it goes on to visit
visit_Compare(node, p) ==
    [emit |-> compare_loop(node, 1),
     push |-> generic_visit(node, p),
     w |-> WarmupBy(co_warmup, compare_loop_events(node, 1))]

(***************************************************************************)
(* Scan engine                                                             *)
(***************************************************************************)
RootPath == 0

\* scan_file without its try/except: the exception reaches the caller
scan_file_except_reraise(filepath, cause) ==
    [raised |-> TRUE, ret |-> <<>>, err |-> <<>>]

\* the except clause returning the findings gathered so far instead of []
scan_file_except_keeps_findings(filepath, cause) ==
    [raised |-> FALSE,
     ret |-> found_patterns,
     err |-> << [msg |-> "Error scanning", path |-> filepath, cause |-> cause] >>]

\* the except clause of scan_file: report on stderr and return []
scan_file_except(filepath, cause) ==
    [raised |-> FALSE,
     ret |-> <<>>,
     err |-> << [msg |-> "Error scanning", path |-> filepath, cause |-> cause] >>]

\* scan_directory without the is_dir check
scan_directory_check_exists_only(root) ==
    IF root = "missing"
    THEN [proceed |-> FALSE,
          err |-> << [msg |-> "does not exist", path |-> RootPath, cause |-> "missing"] >>]
    ELSE [proceed |-> TRUE, err |-> <<>>]

\* the two fail-fast checks of scan_directory
scan_directory_check(root) ==
    IF root = "missing"
    THEN [proceed |-> FALSE,
          err |-> << [msg |-> "does not exist", path |-> RootPath, cause |-> "missing"] >>]
    ELSE IF root # "dir"
    THEN [proceed |-> FALSE,
          err |-> << [msg |-> "is not a directory", path |-> RootPath, cause |-> "file"] >>]
    ELSE [proceed |-> TRUE, err |-> <<>>]

\* results[key] = value on a dict kept in insertion order
DictSet(d, key, value) ==
    IF \E i \in 1..Len(d) : d[i].path = key
    THEN [i \in 1..Len(d) |-> IF d[i].path = key THEN [path |-> key, patterns |-> value] ELSE d[i]]
    ELSE Append(d, [path |-> key, patterns |-> value])

(***************************************************************************)
(* Inputs: the syntax trees and file trees the model is run on             *)
(***************************************************************************)
MaxChain == 3    \* longest call chain generated in full
MaxPairs == 2    \* most operator/comparator pairs of a generated comparison
MaxFiles == 2    \* most entries of a generated multi-entry directory

t_a == <<"a">>
t_b == <<"b">>
t_s == <<"s">>
t_x == <<"x">>
t_foo == <<"f", "o", "o">>
t_bar == <<"b", "a", "r">>
t_my_query == <<"m", "y", "_", "q", "u", "e", "r", "y">>
t_some_row == <<"s", "o", "m", "e", "_", "r", "o", "w">>

\* identifiers and attribute names: equal to "q", containing a keyword, in
\* mixed case, and near misses
Idents ==
    { <<"q">>,
      <<"Q">>,
      <<"q", "q">>,
      <<"q", "u", "e", "r", "y">>,
      <<"m", "y", "_", "q", "u", "e", "r", "y">>,
      <<"M", "y", "Q", "U", "E", "R", "Y">>,
      <<"s", "u", "b", "q">>,
      <<"S", "u", "b", "_", "Q">>,
      <<"s", "u", "b">>,
      <<"s", "o", "m", "e", "_", "r", "o", "w">>,
      <<"F", "i", "r", "s", "t">>,
      <<"p", "h", "o", "n", "e">>,
      <<"r", "e", "s", "u", "l", "t">>,
      <<"r", "e", "c", "o", "r", "d">>,
      <<"D", "A", "T", "A">>,
      <<"x">>,
      <<"a">> }

\* in_ / notin_ and callee names that differ from them in case or spelling
CalleeNames == {s_in_, s_notin_, <<"I", "n", "_">>, <<"_", "i", "n", "_">>, <<"n", "o", "t", "_", "i", "n", "_">>}

SeqsUpTo(S, n) == UNION {[1..k -> S] : k \in 1..n}

\* one link of a chain: .attr(...) when called, .attr otherwise
ChainLinks ==
    {[attr |-> m, called |-> TRUE] : m \in {s_query, s_filter, s_limit, s_first, s_subquery, t_foo}}
    \cup {[attr |-> t_bar, called |-> FALSE]}

RECURSIVE BuildChain(_, _)
\* base.l1.l2...: the links applied to base, the first link innermost
BuildChain(base, links) ==
    IF links = <<>> THEN base
    ELSE LET recv == BuildChain(base, SubSeq(links, 1, Len(links) - 1))
             l == links[Len(links)]
         IN  IF l.called THEN Call(Attribute(recv, l.attr), <<>>) ELSE Attribute(recv, l.attr)

Chains == {BuildChain(Name(t_s, 1), ls) : ls \in SeqsUpTo(ChainLinks, MaxChain)}

Literal3 == List(<<Constant(<<"1">>, 1), Constant(<<"2">>, 1), Constant(<<"3">>, 1)>>, 1)

Atoms ==
    {Name(i, 1) : i \in Idents}
    \cup {Attribute(Name(r, 1), i) : r \in {t_x, t_my_query, t_some_row}, i \in Idents}
    \cup {Literal3, Constant(<<"1">>, 1)}

\* calls whose callee is not an attribute access, and chains on other methods of the lists
OtherCalls ==
    {Call(Name(s_query, 1), <<Name(t_x, 1)>>),
     Call(Name(s_first, 1), <<>>),
     Call(Call(Name(s_query, 1), <<>>), <<>>)}
    \cup {Call(Attribute(Call(Attribute(Name(t_s, 1), s_query), <<Name(t_x, 1)>>), m),
               <<Name(t_a, 1), Name(t_b, 1), Name(t_x, 1)>>) :
            m \in QueryChainMethods \cup RowMethods \cup SubqueryMethods \cup {s_limit}}
    \cup {Call(Attribute(Call(Attribute(Call(Attribute(Name(t_s, 1), s_subquery), <<>>), s_query),
               <<>>), m), <<>>) : m \in {s_filter, s_first, s_limit}}

Operands == Atoms \cup Chains \cup OtherCalls

SmallOperands ==
    {Name(t_my_query, 1), Name(t_some_row, 1), Name(t_x, 1),
     Call(Attribute(Call(Attribute(Name(t_s, 1), s_query), <<>>), s_first), <<>>)}

InCalls ==
    {Call(Attribute(Name(t_a, 1), s_in_), <<e>>) : e \in Operands}
    \cup {Call(Attribute(Name(t_a, 1), m), as) :
            m \in CalleeNames,
            as \in {<<>>} \cup {<<e>> : e \in SmallOperands}
                   \cup {<<Literal3, e>> : e \in SmallOperands}
                   \cup {<<e, Literal3, Name(t_my_query, 1)>> : e \in SmallOperands}}
    \cup {Call(Name(m, 1), <<Name(t_my_query, 1)>>) : m \in {s_in_, s_notin_}}
    \cup {Call(Attribute(Name(t_a, 1), s_in_), <<Starred(Name(s_query, 1))>>)}

AllOps == {"Eq", "NotEq", "Lt", "LtE", "Gt", "GtE", "Is", "IsNot", "In", "NotIn"}
ChainedOps == {"Eq", "GtE", "Is"}

Compares ==
    {Compare(Name(t_a, 1), <<"Eq">>, <<e>>) : e \in Operands}
    \cup {Compare(Name(t_a, 1), <<op>>, <<e>>) : op \in AllOps, e \in SmallOperands}
    \cup UNION {{Compare(Name(t_a, 1), os, cs) : os \in [1..k -> ChainedOps],
                                                  cs \in [1..k -> SmallOperands]} : k \in 2..MaxPairs}

InMyQuery(recv) == Call(Attribute(recv, s_notin_), <<Name(t_my_query, 1)>>)
EqSomeRow(lft) == Compare(lft, <<"NotEq">>, <<Name(t_some_row, 1)>>)
QueryOf(as) == Call(Attribute(Name(t_s, 1), s_query), as)

\* matching calls and comparisons nested in one another
Nested ==
    {Call(Attribute(Name(t_a, 1), s_in_), <<QueryOf(<<InMyQuery(Name(t_b, 1))>>)>>),
     Call(Attribute(Name(t_a, 1), s_in_),
          <<Call(Attribute(QueryOf(<<EqSomeRow(Name(t_x, 1))>>), s_filter),
                 <<InMyQuery(Name(t_b, 1))>>)>>),
     Compare(Name(t_a, 1), <<"Eq">>,
             <<Call(Attribute(QueryOf(<<InMyQuery(Name(t_b, 1))>>), s_first), <<>>)>>),
     Compare(InMyQuery(Name(t_a, 1)), <<"Lt">>, <<Name(t_some_row, 1)>>),
     Call(Attribute(Name(t_a, 1), s_in_), <<EqSomeRow(Name(t_b, 1))>>),
     Compare(Name(t_a, 1), <<"Eq">>, <<InMyQuery(Name(t_b, 1))>>),
     InMyQuery(InMyQuery(Name(t_a, 1))),
     Compare(Name(t_a, 1), <<"Eq", "Eq">>,
             <<QueryOf(<<EqSomeRow(Name(t_x, 1))>>), Attribute(InMyQuery(Name(t_b, 1)), s_data)>>)}

RECURSIVE WithLine(_, _)
\* the same expression written on line l
WithLine(node, l) ==
    CASE node.kind = "Name" -> Name(node.id, l)
      [] node.kind = "Constant" -> Constant(node.repr, l)
      [] node.kind = "Attribute" -> Attribute(WithLine(node.value, l), node.attr)
      [] node.kind = "Call" ->
            Call(WithLine(node.func, l), [i \in 1..Len(node.args) |-> WithLine(node.args[i], l)])
      [] node.kind = "Compare" ->
            Compare(WithLine(node.left, l), node.ops,
                    [i \in 1..Len(node.comparators) |-> WithLine(node.comparators[i], l)])
      [] node.kind = "List" -> List([i \in 1..Len(node.elts) |-> WithLine(node.elts[i], l)], l)
      [] node.kind = "Starred" -> Starred(WithLine(node.value, l))

\* statements of the two-statement modules
SmallStatements ==
    {Call(Attribute(Name(t_a, 1), s_in_), <<Name(t_my_query, 1)>>),
     Compare(Name(t_a, 1), <<"Eq", "Lt">>, <<Name(t_some_row, 1), Attribute(Name(t_x, 1), s_data)>>),
     Call(Attribute(Name(t_a, 1), s_in_), <<Literal3>>)}

Modules ==
    {Module(<<Expr(e)>>) : e \in Operands \cup InCalls \cup Compares \cup Nested}
    \cup {Module(<<Expr(e1), Expr(WithLine(e2, 2))>>) : e1 \in SmallStatements, e2 \in SmallStatements}
    \cup {Module(<<>>)}

NoTree == Module(<<>>)

\* the interpreters: with or without ast.unparse (Python >= 3.9 or older), and
\* whether str.lower() may return the object of an equal literal
Envs == [has_unparse : BOOLEAN, lower_shares_literal : BOOLEAN]

File(path, suffix, status, t) ==
    [path |-> path, is_file |-> TRUE, suffix |-> suffix, status |-> status, tree |-> t]
Directory(path, suffix) ==
    [path |-> path, is_file |-> FALSE, suffix |-> suffix, status |-> "ok", tree |-> NoTree]

\* file contents of the multi-entry directories: no finding, one, three
DirTrees ==
    {Module(<<Expr(Call(Attribute(Name(t_a, 1), s_in_), <<Literal3>>))>>),
     Module(<<Expr(Call(Attribute(Name(t_a, 1), s_in_), <<Name(t_my_query, 1)>>))>>),
     Module(<<Expr(Call(Attribute(Name(t_a, 1), s_in_), <<QueryOf(<<>>)>>)),
              Expr(Compare(Name(t_a, 2), <<"Eq", "Lt">>,
                           <<Name(t_some_row, 2), Attribute(Name(t_x, 2), s_data)>>))>>)}

\* what rglob can yield at position path: a sub-directory, a file of another
\* extension, a source file that parses, one that does not, one that cannot be read
EntryChoices(path) ==
    {Directory(path, ".py")}
    \cup {File(path, ".txt", "ok", t) : t \in {CHOOSE m \in DirTrees : Len(m.body) = 2}}
    \cup {File(path, ".py", "ok", t) : t \in DirTrees}
    \cup {File(path, ".py", "syntax_error", NoTree), File(path, ".py", "unreadable", NoTree)}

\* entries 1..n, in the order rglob yields them
EntrySeqs(n) ==
    {es \in [1..n -> UNION {EntryChoices(i) : i \in 1..n}] : \A i \in 1..n : es[i].path = i}

\* a directory with one source file, over all the syntax trees
RichFileTrees ==
    {[root |-> "dir", extensions |-> {".py"}, entries |-> <<File(1, ".py", "ok", m)>>] : m \in Modules}

\* roots that are missing or not a directory, and directories of up to MaxFiles entries
SmallFileTrees ==
    {[root |-> r, extensions |-> {".py"}, entries |-> <<>>] : r \in {"missing", "file"}}
    \cup UNION {{[root |-> "dir", extensions |-> x, entries |-> es] :
                    x \in {{".py"}, {".py", ".txt"}}, es \in EntrySeqs(n)} : n \in 0..MaxFiles}

NoVisit == [file |-> 0, path |-> <<>>, emit |-> <<>>]
NotRendered == [raised |-> FALSE, text |-> <<>>, room |-> 0]

Init ==
    /\ env \in Envs
    /\ fs \in RichFileTrees \cup SmallFileTrees
    /\ pc = "start"
    /\ idx = 1
    /\ tree = NoTree
    /\ stack = <<>>
    /\ found_patterns = <<>>
    /\ patterns = <<>>
    /\ results = <<>>
    /\ stderr = <<>>
    /\ last = NoVisit
    /\ trace = <<>>
    /\ run = 1
    /\ first_report = <<>>
    /\ co_warmup = 0 - QuickenDelay
    /\ rendered = NotRendered

(***************************************************************************)
(* Steps                                                                   *)
(***************************************************************************)
\* scan_directory up to the loop: results = {}, the two checks
ScanDirectoryCheck ==
    /\ pc = "start"
    /\ LET c == scan_directory_check(fs.root)
       IN  /\ stderr' = stderr \o c.err
           /\ pc' = IF c.proceed THEN "loop" ELSE "done"
    /\ results' = <<>>
    /\ idx' = 1
    /\ UNCHANGED <<run, first_report, co_warmup, rendered>>
    /\ UNCHANGED <<env, fs, tree, stack, found_patterns, patterns, last, trace>>

\* the filter without the test on the suffix
Selected_any_suffix(entry) == entry.is_file

\* the filter of the loop: filepath.is_file() and filepath.suffix in extensions
Selected(entry) == entry.is_file /\ entry.suffix \in fs.extensions

\* a loop iteration on an entry the filter rejects
SkipEntry ==
    /\ pc = "loop"
    /\ idx <= Len(fs.entries)
    /\ ~Selected(fs.entries[idx])
    /\ idx' = idx + 1
    /\ UNCHANGED <<run, first_report, co_warmup, rendered>>
    /\ UNCHANGED <<env, fs, pc, tree, stack, found_patterns, patterns, results, stderr, last, trace>>

\* scan_file on a file whose open/read/parse raises, and the rest of the iteration
ScanFileFail ==
    /\ pc = "loop"
    /\ idx <= Len(fs.entries)
    /\ Selected(fs.entries[idx])
    /\ fs.entries[idx].status # "ok"
    /\ LET r == scan_file_except(fs.entries[idx].path, fs.entries[idx].status)
       IN  /\ stderr' = stderr \o r.err
           /\ pc' = IF r.raised THEN "raised" ELSE "loop"
           /\ patterns' = r.ret
           /\ results' = IF r.raised \/ r.ret = <<>> THEN results
                         ELSE DictSet(results, fs.entries[idx].path, r.ret)
           /\ idx' = IF r.raised THEN idx ELSE idx + 1
    /\ UNCHANGED <<run, first_report, co_warmup, rendered>>
    /\ UNCHANGED <<env, fs, tree, stack, found_patterns, last, trace>>

\* scan_file going on with the finder of the file before
ScanFileParse_same_finder ==
    /\ pc = "loop"
    /\ idx <= Len(fs.entries)
    /\ Selected(fs.entries[idx])
    /\ fs.entries[idx].status = "ok"
    /\ tree' = fs.entries[idx].tree
    /\ stack' = << <<>> >>
    /\ trace' = <<>>
    /\ last' = NoVisit
    /\ pc' = "visit"
    /\ UNCHANGED <<run, first_report, co_warmup, rendered>>
    /\ UNCHANGED <<env, fs, idx, found_patterns, patterns, results, stderr>>

\* scan_file up to finder.visit(tree): read, parse, a fresh QueryInFinder
ScanFileParse ==
    /\ pc = "loop"
    /\ idx <= Len(fs.entries)
    /\ Selected(fs.entries[idx])
    /\ fs.entries[idx].status = "ok"
    /\ tree' = fs.entries[idx].tree
    /\ found_patterns' = <<>>
    /\ stack' = << <<>> >>
    /\ trace' = <<>>
    /\ last' = NoVisit
    /\ pc' = "visit"
    /\ UNCHANGED <<run, first_report, co_warmup, rendered>>
    /\ UNCHANGED <<env, fs, idx, patterns, results, stderr>>

\* a visit that assigns its findings to found_patterns instead of appending them
VisitStep_overwrite(p, v) ==
    /\ found_patterns' = v.emit
    /\ stack' = v.push \o Tail(stack)
    /\ last' = [file |-> idx, path |-> p, emit |-> v.emit]
    /\ trace' = Append(trace, p)
    /\ co_warmup' = v.w
    /\ UNCHANGED <<run, first_report, rendered>>
    /\ UNCHANGED <<env, fs, pc, idx, tree, patterns, results, stderr>>

\* the visit of the next node, given what its visitor method appends and visits
VisitStep(p, v) ==
    /\ found_patterns' = found_patterns \o v.emit
    /\ stack' = v.push \o Tail(stack)
    /\ last' = [file |-> idx, path |-> p, emit |-> v.emit]
    /\ trace' = Append(trace, p)
    /\ co_warmup' = v.w
    /\ UNCHANGED <<run, first_report, rendered>>
    /\ UNCHANGED <<env, fs, pc, idx, tree, patterns, results, stderr>>

VisitCall ==
    /\ pc = "visit"
    /\ stack # <<>>
    /\ NodeAt(tree, Head(stack)).kind = "Call"
    /\ VisitStep(Head(stack), visit_Call(NodeAt(tree, Head(stack)), Head(stack)))

VisitCompare ==
    /\ pc = "visit"
    /\ stack # <<>>
    /\ NodeAt(tree, Head(stack)).kind = "Compare"
    /\ VisitStep(Head(stack), visit_Compare(NodeAt(tree, Head(stack)), Head(stack)))

\* a node of any other class: NodeVisitor.visit falls back on generic_visit
VisitOther ==
    /\ pc = "visit"
    /\ stack # <<>>
    /\ NodeAt(tree, Head(stack)).kind \notin {"Call", "Compare"}
    /\ VisitStep(Head(stack),
                 [emit |-> <<>>, push |-> generic_visit(NodeAt(tree, Head(stack)), Head(stack)),
                  w |-> co_warmup])

\* finder.visit(tree) has returned: scan_file returns found_patterns, and the
\* loop stores them under the file's path when there are any
ScanFileReturn ==
    /\ pc = "visit"
    /\ stack = <<>>
    /\ patterns' = found_patterns
    /\ results' = IF found_patterns # <<>>
                  THEN DictSet(results, fs.entries[idx].path, found_patterns)
                  ELSE results
    /\ idx' = idx + 1
    /\ pc' = "loop"
    /\ UNCHANGED <<run, first_report, co_warmup, rendered>>
    /\ UNCHANGED <<env, fs, tree, stack, found_patterns, stderr, last, trace>>

\* the enumeration is exhausted: return results
ScanDirectoryReturn ==
    /\ pc = "loop"
    /\ idx > Len(fs.entries)
    /\ pc' = "done"
    /\ UNCHANGED <<run, first_report, co_warmup, rendered>>
    /\ UNCHANGED <<env, fs, idx, tree, stack, found_patterns, patterns, results, stderr, last, trace>>

Next ==
    \/ ScanDirectoryCheck
    \/ SkipEntry
    \/ ScanFileFail
    \/ ScanFileParse
    \/ VisitCall
    \/ VisitCompare
    \/ VisitOther
    \/ ScanFileReturn
    \/ ScanDirectoryReturn

Spec == Init /\ [][Next]_vars

TypeOK ==
    /\ pc \in {"start", "loop", "visit", "done", "raised"}
    /\ idx \in 1..(Len(fs.entries) + 1)
    /\ \A i \in 1..Len(found_patterns) :
          found_patterns[i].type \in {"direct_query", "query_variable", "query_attribute",
                                      "subquery_call", "row_result", "possible_row_variable",
                                      "possible_row_attribute"}

(***************************************************************************)
(* Properties                                                              *)
(***************************************************************************)
\* a node has just been visited
Visited == last.file # 0
LastNode == NodeAt(tree, last.path)
Types(fs_) == [i \in 1..Len(fs_) |-> fs_[i].type]

\* a call handed to classifier A: callee attribute in_ / notin_, an argument present
IsMembershipCall(n) ==
    /\ n.kind = "Call"
    /\ n.func.kind = "Attribute"
    /\ n.func.attr \in {<<"i", "n", "_">>, <<"n", "o", "t", "i", "n", "_">>}
    /\ Len(n.args) >= 1

RECURSIVE Spine(_)
\* the callee attribute names met walking the receivers of a call, outermost
\* first, up to the first node that is not a call on an attribute
Spine(n) ==
    IF n.kind = "Call" /\ n.func.kind = "Attribute"
    THEN <<n.func.attr>> \o Spine(n.func.value)
    ELSE <<>>

\* a query chain, read off the spine: some call is named query and every call
\* applied on top of it is a chaining method
SpineIsQueryChain(sp) ==
    \E k \in 1..Len(sp) :
        /\ sp[k] = s_query
        /\ \A j \in 1..(k - 1) :
              sp[j] \in {s_filter, s_join, s_outerjoin, s_group_by, s_having, s_order_by}

SpineHasSubquery(sp) ==
    \E k \in 1..Len(sp) : sp[k] \in {s_subquery, s_scalar_subquery, s_exists, s_all}

\* substring, as "name = prefix + word + suffix"
HasSubstring(word, name) ==
    \E i \in 1..Len(name) : \E j \in i..Len(name) :
        /\ j - i + 1 = Len(word)
        /\ \A k \in 1..Len(word) : name[i + k - 1] = word[k]

HasQueryWord(name) == \E w \in {s_query, s_subq, s_sub_q} : HasSubstring(w, Lower(name))

\* C1: for an in_/notin_ call whose first argument is a call, the finding is
\* direct_query exactly when the argument is a query chain, otherwise
\* subquery_call exactly when a call on its receiver spine is named subquery,
\* scalar_subquery, exists or all, otherwise nothing; the query-chain rule wins
\* when both hold.
C1_CallArgument ==
    (Visited /\ IsMembershipCall(LastNode) /\ LastNode.args[1].kind = "Call") =>
        LET sp == Spine(LastNode.args[1])
        IN  Types(last.emit) =
                IF SpineIsQueryChain(sp) THEN <<"direct_query">>
                ELSE IF SpineHasSubquery(sp) THEN <<"subquery_call">>
                ELSE <<>>

\* an argument that is both a query chain and has a subquery call on its spine
\* has been reported as direct_query
C1_Witness ==
    /\ Visited /\ IsMembershipCall(LastNode) /\ LastNode.args[1].kind = "Call"
    /\ SpineIsQueryChain(Spine(LastNode.args[1]))
    /\ SpineHasSubquery(Spine(LastNode.args[1]))
    /\ Types(last.emit) = <<"direct_query">>

\* C2: a first argument that is a bare identifier whose lower-cased name equals
\* "q" is reported as query_variable, and an attribute access whose lower-cased
\* attribute name equals "q" as query_attribute (string equality).
C2_EqualsQ ==
    (Visited /\ IsMembershipCall(LastNode)) =>
        LET arg == LastNode.args[1]
        IN  /\ (arg.kind = "Name" /\ Lower(arg.id) = <<"q">>)
                  => Types(last.emit) = <<"query_variable">>
            /\ (arg.kind = "Attribute" /\ Lower(arg.attr) = <<"q">>)
                  => Types(last.emit) = <<"query_attribute">>

\* C3: a bare-identifier first argument is reported as query_variable whenever
\* its lower-cased name contains "query", "subq" or "sub_q"; an attribute-access
\* argument is tested on its final attribute name only and reported as
\* query_attribute; a name that neither equals "q" nor contains one of the
\* words gives no finding.
C3_QueryWords ==
    (Visited /\ IsMembershipCall(LastNode)) =>
        LET arg == LastNode.args[1]
        IN  /\ arg.kind = "Name" =>
                  /\ HasQueryWord(arg.id) => Types(last.emit) = <<"query_variable">>
                  /\ (~HasQueryWord(arg.id) /\ Lower(arg.id) # <<"q">>) => last.emit = <<>>
            /\ arg.kind = "Attribute" =>
                  /\ HasQueryWord(arg.attr) => Types(last.emit) = <<"query_attribute">>
                  /\ (~HasQueryWord(arg.attr) /\ Lower(arg.attr) # <<"q">>) => last.emit = <<>>

\* an identifier carrying a word in upper case has been reported
C3_Witness ==
    /\ Visited /\ IsMembershipCall(LastNode)
    /\ LastNode.args[1].kind = "Name"
    /\ LastNode.args[1].id # Lower(LastNode.args[1].id)
    /\ HasQueryWord(LastNode.args[1].id)
    /\ Types(last.emit) = <<"query_variable">>

\* C4: a call node appends a finding only if its callee is an attribute access
\* named exactly in_ or notin_ and it has a positional argument; only the first
\* argument is classified, a first argument that is not a call, an identifier
\* or an attribute access gives nothing, and a call node appends at most one
\* finding.
C4_CallGuard ==
    (Visited /\ LastNode.kind = "Call") =>
        /\ Len(last.emit) <= 1
        /\ ~IsMembershipCall(LastNode) => last.emit = <<>>
        /\ IsMembershipCall(LastNode) =>
              /\ LastNode.args[1].kind \notin {"Call", "Name", "Attribute"} => last.emit = <<>>
              /\ last.emit # <<>> =>
                    /\ last.emit[1].arg = safe_unparse(LastNode.args[1])
                    /\ last.emit[1].comparison = "in_or_notin_"
                    /\ (LastNode.args[1].kind = "Name") = (last.emit[1].type = "query_variable")
                    /\ (LastNode.args[1].kind = "Attribute") = (last.emit[1].type = "query_attribute")
                    /\ (LastNode.args[1].kind = "Call") =
                          (last.emit[1].type \in {"direct_query", "subquery_call"})

\* a.in_([1, 2, 3], my_query): a literal first argument, a query-like second
\* one, and no finding
C4_Witness ==
    /\ Visited /\ IsMembershipCall(LastNode)
    /\ LastNode.args[1].kind = "List"
    /\ Len(LastNode.args) >= 2
    /\ LastNode.args[2].kind = "Name" /\ HasQueryWord(LastNode.args[2].id)
    /\ last.emit = <<>>

RECURSIVE SpineIsRowChain(_)
\* a row-chain, read off the spine: a row-returning method on a query chain, or
\* a chaining method (limit included) on a row-chain or a query chain
SpineIsRowChain(sp) ==
    /\ sp # <<>>
    /\ \/ /\ sp[1] \in {s_first, s_one, s_one_or_none, s_scalar_one, s_scalar_one_or_none}
          /\ SpineIsQueryChain(Tail(sp))
       \/ /\ sp[1] \in {s_filter, s_join, s_outerjoin, s_group_by, s_having, s_order_by, s_limit}
          /\ (SpineIsRowChain(Tail(sp)) \/ SpineIsQueryChain(Tail(sp)))

\* the six operators classifier B is run for, and their symbols
ComparisonSymbol(op) ==
    CASE op = "Eq" -> "==" [] op = "NotEq" -> "!=" [] op = "Lt" -> "<"
      [] op = "LtE" -> "<=" [] op = "Gt" -> ">" [] op = "GtE" -> ">="
      [] OTHER -> "none"

\* the findings a comparison node appended for its i-th pair
PairFindings(i) ==
    SelectSeq(last.emit, LAMBDA f : f.arg = safe_unparse(LastNode.comparators[i]))

\* C5: a comparator that is a call is reported as row_result only if it is a
\* row-chain: a row-returning method on a query chain, or a chaining method
\* (limit included) on a row-chain or query chain; every other call comparator
\* gives nothing.
C5_RowChainOnly ==
    (Visited /\ LastNode.kind = "Compare") =>
        \A i \in 1..Len(LastNode.comparators) :
            (LastNode.comparators[i].kind = "Call"
             /\ ~SpineIsRowChain(Spine(LastNode.comparators[i])))
                => PairFindings(i) = <<>>

HasRowWord(name) ==
    \E w \in {s_row, s_first, s_one, s_result, s_record, s_data} : HasSubstring(w, Lower(name))

\* C6: a bare-identifier comparator is reported as possible_row_variable exactly
\* when its lower-cased name contains row, first, one, result, record or data,
\* an attribute-access comparator as possible_row_attribute exactly when its
\* lower-cased final attribute name does; any other comparator that is not a
\* call gives nothing.
C6_RowWords ==
    (Visited /\ LastNode.kind = "Compare" /\ Len(LastNode.ops) = 1
     /\ ComparisonSymbol(LastNode.ops[1]) # "none") =>
        LET arg == LastNode.comparators[1]
        IN  /\ arg.kind = "Name" =>
                  Types(last.emit) = IF HasRowWord(arg.id) THEN <<"possible_row_variable">> ELSE <<>>
            /\ arg.kind = "Attribute" =>
                  Types(last.emit) = IF HasRowWord(arg.attr) THEN <<"possible_row_attribute">> ELSE <<>>
            /\ arg.kind \notin {"Name", "Attribute", "Call"} => last.emit = <<>>

\* x.DATA on a receiver without a row word has been reported as possible_row_attribute
C6_Witness ==
    /\ Visited /\ LastNode.kind = "Compare" /\ Len(LastNode.ops) = 1
    /\ LastNode.comparators[1].kind = "Attribute"
    /\ LastNode.comparators[1].attr = <<"D", "A", "T", "A">>
    /\ LastNode.comparators[1].value.kind = "Name"
    /\ ~HasRowWord(LastNode.comparators[1].value.id)
    /\ Types(last.emit) = <<"possible_row_attribute">>

\* C7: a comparison with k pairs is processed pair by pair: pair i is classified
\* from comparator i alone and only when its operator is one of the six; each
\* pair gives at most one finding, so at most k in all, in pair order, each with
\* its own pair's operator symbol.
C7_PairByPair ==
    (Visited /\ LastNode.kind = "Compare") =>
        LET k == Len(LastNode.ops)
            Match(i) == /\ ComparisonSymbol(LastNode.ops[i]) # "none"
                        /\ classify_comparison_argument(LastNode.comparators[i]) # NoneT
        IN  /\ Len(last.emit) <= k
            /\ \E pos \in [1..Len(last.emit) -> 1..k] :
                  /\ \A j \in 1..Len(last.emit) : \A j2 \in 1..Len(last.emit) :
                        j < j2 => pos[j] < pos[j2]
                  /\ \A i \in 1..k : Match(i) = (\E j \in 1..Len(last.emit) : pos[j] = i)
                  /\ \A j \in 1..Len(last.emit) :
                        /\ last.emit[j].comparison = ComparisonSymbol(LastNode.ops[pos[j]])
                        /\ last.emit[j].type =
                              classify_comparison_argument(LastNode.comparators[pos[j]])
                        /\ last.emit[j].arg = safe_unparse(LastNode.comparators[pos[j]])

\* a is r >= r: a chained comparison on one row-like comparator r, whose pair
\* with `is` was not reported and whose pair with >= was
C7_Witness ==
    /\ Visited /\ LastNode.kind = "Compare"
    /\ Len(LastNode.ops) >= 2
    /\ LastNode.ops[1] = "Is" /\ LastNode.ops[2] = "GtE"
    /\ LastNode.comparators[1] = LastNode.comparators[2]
    /\ Len(last.emit) = 1
    /\ last.emit[1].comparison = ">="

IsPrefix(p, q) == Len(p) <= Len(q) /\ SubSeq(q, 1, Len(p)) = p
InSeq(x, sq) == \E i \in 1..Len(sq) : sq[i] = x
Count(x, sq) == Cardinality({i \in 1..Len(sq) : sq[i] = x})

\* what the node at path p appends when it is visited
NodeEmit(p) ==
    LET n == NodeAt(tree, p)
    IN  IF n.kind = "Call" THEN visit_Call(n, p).emit
        ELSE IF n.kind = "Compare" THEN visit_Compare(n, p).emit
        ELSE <<>>

RECURSIVE SumEmit(_, _)
\* how many findings the nodes at paths[i..] append
SumEmit(paths, i) ==
    IF i > Len(paths) THEN 0 ELSE Len(NodeEmit(paths[i])) + SumEmit(paths, i + 1)

\* C8: the traversal never short-circuits: during the visit of a file every node
\* of the tree has either been visited, exactly once, or is still to be visited
\* as a node waiting on the stack or a descendant of one, whether or not its
\* ancestors matched; so when the visit ends every node has been visited exactly
\* once and every matching node, nested ones included, has added its findings
\* once.
C8_VisitAll ==
    pc = "visit" =>
        LET all == PreOrder(tree, <<>>)
            seen == {trace[i] : i \in 1..Len(trace)}
            nodes == {all[i] : i \in 1..Len(all)}
        IN  /\ Cardinality(seen) = Len(trace)
            /\ seen \subseteq nodes
            /\ \A a \in nodes :
                  Cardinality({j \in 1..Len(stack) : IsPrefix(stack[j], a)}) =
                      (IF a \in seen THEN 0 ELSE 1)
            /\ stack = <<>> => Len(found_patterns) = SumEmit(all, 1)

\* an in_ call nested in the argument of a matched in_ call has added its own
\* finding after the outer one
C8_Witness ==
    /\ pc = "visit"
    /\ Visited /\ IsMembershipCall(LastNode) /\ last.emit # <<>>
    /\ \E i \in 1..Len(trace) :
          /\ trace[i] # last.path
          /\ IsPrefix(Append(trace[i], 2), last.path)
          /\ IsMembershipCall(NodeAt(tree, trace[i]))
          /\ NodeEmit(trace[i]) # <<>>
    /\ Len(found_patterns) >= 2

\* the entry the loop has just dealt with is a selected file that fails to read or parse
JustFailed ==
    /\ pc \in {"loop", "raised"}
    /\ idx > 1
    /\ Selected(fs.entries[idx - 1])
    /\ fs.entries[idx - 1].status # "ok"

\* C9: scan_file on a file that fails to parse or cannot be read returns an
\* empty sequence, reports the failure on stderr, and does not propagate it;
\* the file gets no finding.
C9_ScanFileFailure ==
    /\ pc # "raised"
    /\ JustFailed =>
          /\ patterns = <<>>
          /\ stderr # <<>>
          /\ stderr[Len(stderr)].msg = "Error scanning"
          /\ stderr[Len(stderr)].path = fs.entries[idx - 1].path
    /\ \A i \in 1..(idx - 1) :
          (Selected(fs.entries[i]) /\ fs.entries[i].status # "ok") =>
              /\ Count(fs.entries[i].path, [j \in 1..Len(stderr) |-> stderr[j].path]) = 1
              /\ \A j \in 1..Len(results) : results[j].path # fs.entries[i].path

\* a file with a syntax error has been skipped after a file with findings was recorded
C9_Witness ==
    /\ JustFailed
    /\ fs.entries[idx - 1].status = "syntax_error"
    /\ results # <<>>
    /\ patterns = <<>>

\* C10: scan_directory on a root that does not exist or is not a directory
\* reports an error and returns an empty report, scanning nothing and raising
\* nothing.
C10_BadRoot ==
    (fs.root # "dir" /\ pc # "start") =>
        /\ pc = "done"
        /\ results = <<>>
        /\ Len(stderr) = 1
        /\ stderr[1].path = RootPath
        /\ stderr[1].msg = (IF fs.root = "missing" THEN "does not exist" ELSE "is not a directory")
        /\ trace = <<>> /\ tree = NoTree /\ idx = 1

\* scan_directory has returned for a root that is a regular file
C10_Witness == fs.root = "file" /\ pc = "done" /\ results = <<>> /\ Len(stderr) = 1

\* what visiting the node at path p of syntax tree t appends
EmitAt(t, p) ==
    LET n == NodeAt(t, p)
    IN  IF n.kind = "Call" THEN visit_Call(n, p).emit
        ELSE IF n.kind = "Compare" THEN visit_Compare(n, p).emit
        ELSE <<>>

RECURSIVE EmitAlong(_, _, _)
\* the findings of the nodes at paths[i..] of t, in that order
EmitAlong(t, paths, i) ==
    IF i > Len(paths) THEN <<>>
    ELSE EmitAt(t, paths[i]) \o EmitAlong(t, paths, i + 1)

\* the findings of a file scanned on its own, in document order
FindingsOf(t) == EmitAlong(t, PreOrder(t, <<>>), 1)

\* the entries the enumeration has dealt with so far
Handled == IF pc \in {"start"} THEN 0 ELSE idx - 1

\* a regular file whose extension is in the extension set
Matches(entry) == entry.is_file = TRUE /\ \E x \in fs.extensions : x = entry.suffix

\* C11: at every point of a directory scan and in the returned report, every
\* path of the report maps to a non-empty finding sequence and is a regular file
\* under the root whose extension is in the extension set; files without
\* findings and files of other extensions never appear, so with N matching
\* files the report has at most N entries.
C11_ReportEntries ==
    /\ \A j \in 1..Len(results) :
          /\ results[j].patterns # <<>>
          /\ \E i \in 1..Handled :
                /\ fs.entries[i].path = results[j].path
                /\ Matches(fs.entries[i])
                /\ FindingsOf(fs.entries[i].tree) # <<>>
          /\ \A j2 \in 1..Len(results) : results[j2].path = results[j].path => j2 = j
    /\ Len(results) <= Cardinality({i \in 1..Len(fs.entries) : Matches(fs.entries[i])})

\* a scan has returned a report with the one entry of a matching file, having
\* met a file of another extension whose content has findings
C11_Witness ==
    /\ pc = "done"
    /\ Len(results) = 1
    /\ \E i \in 1..Len(fs.entries) :
          /\ Matches(fs.entries[i]) /\ fs.entries[i].path = results[1].path
    /\ \E i \in 1..Len(fs.entries) :
          /\ fs.entries[i].is_file /\ ~Matches(fs.entries[i])
          /\ FindingsOf(fs.entries[i].tree) # <<>>

RECURSIVE ReportOf(_, _)
\* the report made of each of the entries i..n scanned on its own: the matching
\* files that parse and have findings, in enumeration order
ReportOf(i, n) ==
    IF i > n THEN <<>>
    ELSE LET e == fs.entries[i]
             own == IF Matches(e) /\ e.status = "ok" /\ FindingsOf(e.tree) # <<>>
                    THEN << [path |-> e.path, patterns |-> FindingsOf(e.tree)] >>
                    ELSE <<>>
         IN  own \o ReportOf(i + 1, n)

\* C12: a parse failure skips exactly that file: the scan goes on with the
\* remaining files, the failing file is absent from the report, and every other
\* file's entry is what scanning that file alone gives, whatever was scanned
\* before it.
C12_FailureSkipsOneFile ==
    /\ pc # "raised"
    /\ pc \in {"loop", "done"} => results = ReportOf(1, Handled)
    /\ pc = "visit" => results = ReportOf(1, idx - 1)

\* the scan has returned, a file that does not parse came first, and a file
\* after it has its entry in the report
C12_Witness ==
    /\ pc = "done"
    /\ Len(fs.entries) >= 2
    /\ Matches(fs.entries[1]) /\ fs.entries[1].status = "syntax_error"
    /\ \E j \in 1..Len(results) : results[j].path = fs.entries[2].path

(***************************************************************************)
(* Scanning an unchanged file tree a second time                           *)
(***************************************************************************)
\* scan_directory is called again, in the same process, on the same file tree
\* with the same arguments; rglob yields the entries of an unchanged tree in
\* the same order.  Nothing is reset here: the second call starts from
\* whatever the first one left behind.
Rescan ==
    /\ pc = "done"
    /\ run = 1
    /\ run' = 2
    /\ first_report' = results
    /\ pc' = "start"
    /\ UNCHANGED <<env, fs, idx, tree, stack, found_patterns, patterns, results, stderr, last,
                   trace, co_warmup, rendered>>

\* the multi-entry directories, and single files with nested matches
\* the scan of the small directories and of single files with nested matches
InitDir ==
    /\ Init
    /\ fs \in SmallFileTrees
              \cup {[root |-> "dir", extensions |-> {".py"},
                     entries |-> <<File(1, ".py", "ok", Module(<<Expr(e)>>))>>] : e \in Nested}

SpecDir == InitDir /\ [][Next]_vars

InitTwice == InitDir

NextTwice == Next \/ Rescan

SpecTwice == InitTwice /\ [][NextTwice]_vars

\* C13: running the scan twice over an unchanged file tree gives the same
\* report: the same files in the same order, each with the same findings in
\* the same order.
C13_Idempotent == (run = 2 /\ pc = "done") => results = first_report

\* the second scan has returned a report of two files
C13_Witness == run = 2 /\ pc = "done" /\ Len(results) >= 2 /\ Len(first_report) >= 2

(***************************************************************************)
(* The structural renderer called on its own                               *)
(***************************************************************************)
MaxFrames == 4   \* most nested calls that still fit where the renderer is called

\* nodes of every kind
RenderInputs ==
    Operands \cup InCalls \cup Compares \cup Nested
    \cup {Module(<<>>), Module(<<Expr(Name(t_a, 1))>>), Expr(Name(t_a, 1)),
          Starred(Name(s_query, 1)), List(<<>>, 1)}

InitRender ==
    /\ env = [has_unparse |-> FALSE, lower_shares_literal |-> FALSE]
    /\ fs = [root |-> "missing", extensions |-> {".py"}, entries |-> <<>>]
    /\ pc = "render"
    /\ idx = 1
    /\ tree \in RenderInputs
    /\ stack = <<>>
    /\ found_patterns = <<>>
    /\ patterns = <<>>
    /\ results = <<>>
    /\ stderr = <<>>
    /\ last = NoVisit
    /\ trace = <<>>
    /\ run = 1
    /\ first_report = <<>>
    /\ co_warmup \in (0 - QuickenDelay)..0
    /\ rendered = NotRendered

\* finder.fallback_unparse(tree), called where room nested calls still fit under
\* the recursion limit
FallbackUnparse ==
    /\ pc = "render"
    /\ \E room \in 1..MaxFrames :
          LET r == fallback_unparse_call(tree, co_warmup, room)
          IN  /\ rendered' = [raised |-> r.raised, text |-> r.text, room |-> room]
              /\ co_warmup' = r.w
    /\ pc' = "rendered"
    /\ UNCHANGED <<env, fs, idx, tree, stack, found_patterns, patterns, results, stderr, last,
                   trace, run, first_report>>

NextRender == FallbackUnparse

SpecRender == InitRender /\ [][NextRender]_vars

\* the placeholder of a node kind that is not rendered structurally
Placeholder(kind) ==
    CASE kind = "Constant" -> <<"<", "C", "o", "n", "s", "t", "a", "n", "t", ">">>
      [] kind = "List" -> <<"<", "L", "i", "s", "t", ">">>
      [] kind = "Starred" -> <<"<", "S", "t", "a", "r", "r", "e", "d", ">">>
      [] kind = "Expr" -> <<"<", "E", "x", "p", "r", ">">>
      [] kind = "Module" -> <<"<", "M", "o", "d", "u", "l", "e", ">">>

\* C14: for every syntax node, of any kind and nesting depth, fallback_unparse
\* terminates without raising and returns a non-empty string; a node that is
\* not a Name, Attribute, Call or Compare renders as "<KindName>".
C14_RendererTotal ==
    pc = "rendered" =>
        /\ ~rendered.raised
        /\ Len(rendered.text) > 0
        /\ tree.kind \notin {"Name", "Attribute", "Call", "Compare"}
              => rendered.text = Placeholder(tree.kind)

RECURSIVE PairsText(_, _)
\* " op comparator" for the pairs i.. of a comparison
PairsText(node, i) ==
    IF i > Len(node.ops) THEN <<>>
    ELSE <<" ">> \o SymbolText(op_symbol(node.ops[i])) \o <<" ">>
         \o fallback_unparse(node.comparators[i]) \o PairsText(node, i + 1)

\* C16 as stated: a comparison renders as render(left) + " " + opSymbol + " " +
\* render(firstComparator); of a chained comparison only the first pair appears.
C16_FirstPairOnly ==
    (pc = "rendered" /\ ~rendered.raised /\ tree.kind = "Compare") =>
        rendered.text = fallback_unparse(tree.left) \o <<" ">>
                        \o SymbolText(op_symbol(tree.ops[1])) \o <<" ">>
                        \o fallback_unparse(tree.comparators[1])

\* C16 amended: a comparison renders as render(left) followed, for every
\* operator/comparator pair in order, by " " + opSymbol + " " +
\* render(comparator); every pair of a chained comparison appears.
C16_AllPairs ==
    (pc = "rendered" /\ ~rendered.raised /\ tree.kind = "Compare") =>
        rendered.text = fallback_unparse(tree.left) \o PairsText(tree, 1)

\* a chained comparison has been rendered
C16_Witness ==
    /\ pc = "rendered" /\ ~rendered.raised
    /\ tree.kind = "Compare" /\ Len(tree.ops) >= 2
    /\ Len(rendered.text) > 0

\* C15: the findings of one file are in pre-order (document order): the nodes
\* are visited in the pre-order of the tree, each visit leaves its findings at
\* the end of the list, and when the visit of the file ends the list is the
\* concatenation, in pre-order, of what each node appended; so a
\* node's findings precede those of its descendants, the findings of an
\* earlier child subtree precede those of a later one, and the findings of one
\* comparison node are contiguous and in pair order.
C15_PreOrder ==
    pc = "visit" =>
        LET all == PreOrder(tree, <<>>)
        IN  /\ Len(trace) <= Len(all)
            /\ trace = SubSeq(all, 1, Len(trace))
            /\ stack = <<>> => found_patterns = EmitAlong(tree, all, 1)
            /\ Visited =>
                  /\ Len(last.emit) <= Len(found_patterns)
                  /\ last.emit = SubSeq(found_patterns,
                                        Len(found_patterns) - Len(last.emit) + 1,
                                        Len(found_patterns))
                  /\ LastNode.kind = "Compare" =>
                        \A j \in 1..Len(last.emit) : \A j2 \in 1..Len(last.emit) :
                            j < j2 =>
                                \E i \in 1..Len(LastNode.ops) : \E i2 \in 1..Len(LastNode.ops) :
                                    /\ i < i2
                                    /\ last.emit[j].comparison = ComparisonSymbol(LastNode.ops[i])
                                    /\ last.emit[j].arg = safe_unparse(LastNode.comparators[i])
                                    /\ last.emit[j2].comparison = ComparisonSymbol(LastNode.ops[i2])
                                    /\ last.emit[j2].arg = safe_unparse(LastNode.comparators[i2])

\* a file has been visited to the end in which a matched node has a matched
\* descendant: the finding of the outer node comes first, that of the inner
\* node after it
C15_Witness ==
    /\ pc = "visit" /\ stack = <<>>
    /\ Len(found_patterns) >= 2
    /\ \E i \in 1..Len(trace) : \E j \in 1..Len(trace) :
          /\ i < j
          /\ trace[i] # trace[j] /\ IsPrefix(trace[i], trace[j])
          /\ EmitAt(tree, trace[i]) # <<>>
          /\ EmitAt(tree, trace[j]) # <<>>
          /\ found_patterns[1] = EmitAt(tree, trace[i])[1]
          /\ found_patterns[Len(found_patterns)] = EmitAt(tree, trace[j])[1]

CallCategories == {"direct_query", "subquery_call", "query_variable", "query_attribute"}
CompareCategories == {"row_result", "possible_row_variable", "possible_row_attribute"}

\* C17: during a visit every finding in the list has one of the seven
\* categories and a marker consistent with it: the marker is "in_or_notin_"
\* exactly when the category is direct_query, subquery_call, query_variable or
\* query_attribute, and one of ==, !=, <, <=, >, >= (never "?") exactly when
\* the category is row_result, possible_row_variable or
\* possible_row_attribute; the line of a finding is the line of the call or
\* comparison node that produced it.
C17_CategoryAndMarker ==
    pc = "visit" =>
        /\ \A i \in 1..Len(found_patterns) :
              LET f == found_patterns[i]
              IN  /\ f.type \in CallCategories \cup CompareCategories
                  /\ (f.comparison = "in_or_notin_") = (f.type \in CallCategories)
                  /\ (f.comparison \in {"==", "!=", "<", "<=", ">", ">="})
                        = (f.type \in CompareCategories)
        /\ (Visited /\ last.emit # <<>>) =>
              /\ LastNode.kind \in {"Call", "Compare"}
              /\ (LastNode.kind = "Call") = (last.emit[1].type \in CallCategories)
              /\ \A j \in 1..Len(last.emit) : last.emit[j].line = LastNode.lineno

\* a comparison on line 2 has just added a >= finding and another, after the
\* finding of an in_ call on line 1
C17_Witness ==
    /\ pc = "visit" /\ Visited
    /\ LastNode.kind = "Compare" /\ LastNode.lineno = 2
    /\ Len(last.emit) = 2
    /\ Len(found_patterns) = 3
    /\ found_patterns[1].comparison = "in_or_notin_" /\ found_patterns[1].line = 1
    /\ found_patterns[3].line = 2
    /\ found_patterns[3].type \in CompareCategories

\* C18: findings are append-only: a visit step keeps the findings recorded so
\* far, in place, as a prefix of the list and leaves the syntax tree as it is
\* (classification and rendering change neither); storing a later file's
\* findings in the report leaves the entries of the earlier files as they are.
C18_AppendOnly ==
    [][/\ (pc = "visit" /\ pc' = "visit") =>
             /\ IsPrefix(found_patterns, found_patterns')
             /\ tree' = tree
       /\ IsPrefix(results, results')]_vars

\* the findings of a second file have been stored after those of a first one,
\* each file having added its findings in several visit steps
C18_Witness ==
    /\ pc = "done"
    /\ Len(results) = 2
    /\ Len(results[1].patterns) >= 2
    /\ Len(results[2].patterns) >= 2
    /\ results[1].path # results[2].path

====
